---- MODULE Spec2Model ----
(***************************************************************************)
(* A model of the rate-limited Tumblr profile finder                       *)
(* (tumblr_profile_finder_auto.py on top of tumblr_profile_finder.py).     *)
(*                                                                         *)
(* The specifications share the variables:                                 *)
(*   SpecGov  the RateLimitTracker alone, driven the way its callers drive *)
(*            it (check_and_wait, then record_call when it allowed), with  *)
(*            wall-clock time passing between the calls;                   *)
(*   Spec     main() of the auto finder: run_search over the themes,       *)
(*            search_theme_tag, process_blogs, save_progress, interrupts;  *)
(*   SpecResume  main() started again with --resume after a run ended;     *)
(*   SpecBatch   process_blogs over one batch of ten or eleven candidates; *)
(*   SpecFn   find_location_match and meets_criteria called on their own;  *)
(*   SpecOrder   main() run twice from scratch on two orders of the themes; *)
(*   SpecSearch  main() with some --max-posts-per-theme against upstreams  *)
(*            that page in different ways; SpecSearchFair adds that the    *)
(*            process keeps taking its steps;                              *)
(*   SpecRoll    the RateLimitTracker with the time of each call kept.     *)
(***************************************************************************)
EXTENDS Integers, Sequences, FiniteSets, TLC

VARIABLES
    now,              \* the wall clock, datetime.now(), in seconds
    rate_tracker,     \* the RateLimitTracker object
    pc,               \* position of the control thread
    discovered_blogs, \* self.discovered_blogs: blog_name -> blog_data
    blog_themes,      \* self.blog_themes: blog_name -> set of theme tags
    file,             \* search_progress.json: <<>> (missing) or <<contents>>
    resume,           \* args.resume
    theme_i,          \* run_search: index of the theme of the for loop
    blog_locations,   \* search_theme_tag / process_blogs: the dict, in
                      \* insertion order, as a sequence of items
    before,           \* search_theme_tag: the cursor (0: None)
    posts_retrieved,  \* search_theme_tag
    processed,        \* process_blogs
    exported,         \* the export files: <<>> or <<the records written>>
    exit_code,        \* the status main returned: <<>> or <<status>>
    run,              \* which process this is (1: the first)
    errors,           \* transport errors raised so far in this run
    elapses,          \* how many times the environment let time pass
    chk,              \* history: the last check_and_wait (state before, result)
    hist,             \* history of this run, for the claims
    call,             \* a function called on its own: arguments and result;
                      \* or the max_posts and the upstream of the runs of
                      \* SpecSearch
    search_themes     \* run_search: its argument `themes`

pipevars == <<discovered_blogs, blog_themes, file, resume, theme_i,
              blog_locations, before, posts_retrieved, processed, exported,
              exit_code, run, errors, hist, call, search_themes>>

govvars == <<now, rate_tracker, chk, elapses, pc>>

vars == <<govvars, pipevars>>

----------------------------------------------------------------------------
(* Program constants *)

HourSeconds == 3600
DaySeconds == 86400
SafetyMargin == 10
WaitBuffer == 10

(* Bounds of the model *)

\* hourly_limit = SafetyMargin + HourlyBudget: calls allowed per hour window
HourlyBudget == 2
\* daily_limit = SafetyMargin + DailyBudget: calls allowed per day window
DailyBudget == 10
\* the environment lets time pass (beyond the program's own sleeps) at most
\* this many times
MaxElapses == 3

StartTime == 100 * DaySeconds
ElapseSteps == {HourSeconds \div 2, HourSeconds, DaySeconds}
PauseSteps == {HourSeconds, DaySeconds}

----------------------------------------------------------------------------
(* RateLimitTracker *)

\* RateLimitTracker.__init__ at time t
NewRateLimitTracker(hourly_limit, daily_limit, t) ==
    [hourly_limit |-> hourly_limit,
     daily_limit  |-> daily_limit,
     hourly_calls |-> 0,
     daily_calls  |-> 0,
     hour_start   |-> t,
     day_start    |-> t,
     total_calls  |-> 0]

record_call(rt) ==
    [rt EXCEPT !.hourly_calls = @ + 1,
               !.daily_calls  = @ + 1,
               !.total_calls  = @ + 1]

\* a variant of ResetHour that starts a new hour window at every check
ResetHourAlways(rt, t) == [rt EXCEPT !.hourly_calls = 0, !.hour_start = t]

\* lines 49-53: the hour has passed, reset the hourly counter
ResetHour(rt, t) ==
    IF t - rt.hour_start >= HourSeconds
    THEN [rt EXCEPT !.hourly_calls = 0, !.hour_start = t]
    ELSE rt

\* lines 55-59: the day has passed, reset the daily counter
ResetDay(rt, t) ==
    IF t - rt.day_start >= DaySeconds
    THEN [rt EXCEPT !.daily_calls = 0, !.day_start = t]
    ELSE rt

\* a variant of SleepSeconds that forgets the buffer
SleepSecondsNoBuffer(time_remaining) == time_remaining

\* line 69: the argument of time.sleep
SleepSeconds(time_remaining) == time_remaining + WaitBuffer

\* lines 61-72: the seconds slept when approaching the hourly limit (0: no sleep)
HourlyWait(rt, t) ==
    LET time_elapsed   == t - rt.hour_start
        time_remaining == HourSeconds - time_elapsed
    IN  IF rt.hourly_calls >= rt.hourly_limit - SafetyMargin /\ time_remaining > 0
        THEN SleepSeconds(time_remaining)
        ELSE 0

\* lines 74-80: the value returned
DailyAllows(rt) == ~(rt.daily_calls >= rt.daily_limit - SafetyMargin)

\* check_and_wait entered at time t: the tracker after it, the clock after it,
\* and the value returned
check_and_wait(rt, t) ==
    LET r1    == ResetDay(ResetHour(rt, t), t)
        slept == HourlyWait(r1, t)
        r2    == IF slept > 0
                 THEN [r1 EXCEPT !.hourly_calls = 0, !.hour_start = t + slept]
                 ELSE r1
    IN  [rt |-> r2, now |-> t + slept, ret |-> DailyAllows(r2)]

\* the history record of a check_and_wait entered at time t in state rt
Checked(rt, t) ==
    LET c == check_and_wait(rt, t)
    IN  [valid |-> TRUE, pre |-> rt, at |-> t, post |-> c.rt,
         after |-> c.now, ret |-> c.ret]

NoCheck == [valid |-> FALSE]

\* no function is being called on its own
NoCall == [fn |-> "none", done |-> FALSE]

----------------------------------------------------------------------------
(* Text.  A Python str is a sequence of one-character strings. *)

UpperChars == <<"A", "B", "C", "D", "E", "F", "G", "H", "I", "J", "K", "L", "M", "N", "O", "P", "Q", "R", "S", "T", "U", "V", "W", "X", "Y", "Z">>
LowerChars == <<"a", "b", "c", "d", "e", "f", "g", "h", "i", "j", "k", "l", "m", "n", "o", "p", "q", "r", "s", "t", "u", "v", "w", "x", "y", "z">>
DigitChars == {"0", "1", "2", "3", "4", "5", "6", "7", "8", "9"}

\* str.lower() on one character (ASCII)
LowerChar(c) ==
    IF \E i \in 1..Len(UpperChars) : UpperChars[i] = c
    THEN LowerChars[CHOOSE i \in 1..Len(UpperChars) : UpperChars[i] = c]
    ELSE c

\* str.lower()
lower(text) == <<>> \o [i \in 1..Len(text) |-> LowerChar(text[i])]

\* the characters the regular expression class \w matches
IsWordChar(c) ==
    \/ \E i \in 1..Len(UpperChars) : UpperChars[i] = c \/ LowerChars[i] = c
    \/ c \in DigitChars
    \/ c = "_"

\* the regular expression assertion \b between text[k] and text[k+1]
WordBoundary(text, k) ==
    LET left  == k >= 1 /\ IsWordChar(text[k])
        right == k + 1 <= Len(text) /\ IsWordChar(text[k + 1])
    IN  left # right

\* text[i .. i+Len(word)-1] = word
OccursAt(word, text, i) ==
    /\ i >= 1
    /\ i + Len(word) - 1 <= Len(text)
    /\ \A j \in 1..Len(word) : text[i + j - 1] = word[j]

\* a variant of WordSearch without the two \b assertions
SubstringSearch(location, text) ==
    \E i \in 1..Len(text) : OccursAt(location, text, i)

\* re.search(r'\b' + re.escape(location) + r'\b', text)
WordSearch(location, text) ==
    \E i \in 1..Len(text) :
        /\ OccursAt(location, text, i)
        /\ WordBoundary(text, i - 1)
        /\ WordBoundary(text, i + Len(location) - 1)

\* re.sub(r'<[^>]+>', '', text) removes every leftmost match of "<", one or
\* more characters other than ">", ">".  A match ends at a ">", so text[k] is
\* removed exactly when the first "<" after the last ">" before k is at or
\* before k and the first ">" after that "<" is at least two characters on.
InTag(text, k) ==
    LET closed == {j \in 1..(k - 1) : text[j] = ">"}
        from   == IF closed = {} THEN 1
                  ELSE 1 + CHOOSE j \in closed : \A m \in closed : m <= j
        opens  == {i \in from..k : text[i] = "<"}
        open   == CHOOSE i \in opens : \A m \in opens : i <= m
        closes == {j \in (open + 1)..Len(text) : text[j] = ">"}
    IN  /\ opens # {}
        /\ closes # {}
        /\ \A j \in closes : j >= open + 2

StripTags(text) ==
    LET kept == {k \in 1..Len(text) : ~InTag(text, k)}
    IN  <<>> \o [n \in 1..Cardinality(kept) |->
                   text[CHOOSE k \in kept : Cardinality({j \in kept : j <= k}) = n]]

\* LOCATION_INDICATORS
LOCATION_INDICATORS ==
    {<<"c", "a", "l", "i", "f", "o", "r", "n", "i", "a">>,
     <<"c", "a">>,
     <<"c", "a", "l", "i">>,
     <<"n", "o", "r", "c", "a", "l">>,
     <<"s", "o", "c", "a", "l">>,
     <<"b", "a", "y", " ", "a", "r", "e", "a">>,
     <<"s", "i", "l", "i", "c", "o", "n", " ", "v", "a", "l", "l", "e", "y">>,
     <<"e", "a", "s", "t", " ", "b", "a", "y">>,
     <<"s", "o", "u", "t", "h", " ", "b", "a", "y">>,
     <<"p", "e", "n", "i", "n", "s", "u", "l", "a">>,
     <<"s", "a", "n", " ", "f", "r", "a", "n", "c", "i", "s", "c", "o">>,
     <<"s", "f">>,
     <<"o", "a", "k", "l", "a", "n", "d">>,
     <<"b", "e", "r", "k", "e", "l", "e", "y">>,
     <<"s", "a", "n", " ", "j", "o", "s", "e">>,
     <<"l", "o", "s", " ", "a", "n", "g", "e", "l", "e", "s">>,
     <<"s", "a", "n", " ", "d", "i", "e", "g", "o">>,
     <<"s", "a", "c", "r", "a", "m", "e", "n", "t", "o">>,
     <<"p", "a", "l", "o", " ", "a", "l", "t", "o">>,
     <<"m", "o", "u", "n", "t", "a", "i", "n", " ", "v", "i", "e", "w">>,
     <<"f", "r", "e", "m", "o", "n", "t">>,
     <<"s", "a", "n", "t", "a", " ", "c", "l", "a", "r", "a">>,
     <<"c", "u", "p", "e", "r", "t", "i", "n", "o">>,
     <<"m", "e", "n", "l", "o", " ", "p", "a", "r", "k">>,
     <<"r", "e", "d", "w", "o", "o", "d", " ", "c", "i", "t", "y">>,
     <<"s", "u", "n", "n", "y", "v", "a", "l", "e">>,
     <<"s", "a", "n", "t", "a", " ", "m", "o", "n", "i", "c", "a">>,
     <<"v", "e", "n", "i", "c", "e", " ", "b", "e", "a", "c", "h">>,
     <<"p", "a", "s", "a", "d", "e", "n", "a">>}

----------------------------------------------------------------------------
(* TumblrProfileFinder: the pure functions *)

\* Python's None, and an optional value: <<>> or <<v>>
None == <<>>

\* dict.get(key, default)
Get(d, key, default) == IF key \in DOMAIN d THEN d[key] ELSE default

\* the gazetteer terms found in a lower-cased text as whole words
TermsIn(text_lower) ==
    {location \in LOCATION_INDICATORS : WordSearch(lower(location), text_lower)}

\* a variant of FirstMatchingField that takes the last field with a term
LastMatchingField(fields, text_clean) ==
    LET hits == {i \in 1..Len(fields) :
                    /\ fields[i][2] # <<>>
                    /\ \E location \in LOCATION_INDICATORS :
                          WordSearch(location, <<>> \o [k \in 1..Len(text_clean[i]) |->
                                                          LowerChar(text_clean[i][k])])}
    IN  IF hits = {} THEN 0 ELSE CHOOSE i \in hits : \A k \in hits : i >= k

\* the index of the first field of a sequence of <<source, text>> pairs in
\* which some gazetteer term is found (0: none); empty texts are skipped
FirstMatchingField(fields, text_clean) ==
    LET hits == {i \in 1..Len(fields) :
                    /\ fields[i][2] # <<>>
                    /\ TermsIn(lower(text_clean[i])) # {}}
    IN  IF hits = {} THEN 0 ELSE CHOOSE i \in hits : \A k \in hits : i <= k

\* find_location_match(text_fields, tags): text_fields is the dict in its
\* insertion order, a sequence of <<source, text>> pairs.  The gazetteer is a
\* Python set, whose iteration order is not fixed: the value is the set of
\* results the call can return, {None} when nothing matches.
find_location_match(text_fields, tags) ==
    LET f == FirstMatchingField(text_fields,
                                [i \in 1..Len(text_fields) |-> text_fields[i][2]])
        tag_terms == {location \in LOCATION_INDICATORS :
                         \E i \in 1..Len(tags) :
                            WordSearch(lower(location), lower(tags[i]))}
    IN  IF f # 0
        THEN {<<location, text_fields[f][1]>> :
                 location \in TermsIn(lower(text_fields[f][2]))}
        ELSE IF tags # <<>> /\ tag_terms # {}
        THEN {<<location, "tags">> : location \in tag_terms}
        ELSE {None}

\* the content keys of a post, in the order check_post_content_for_location
\* collects them, with the characters of f'post_{source}'
ContentKeys == <<"body", "caption", "question", "answer">>
PostSource ==
    [body     |-> <<"p", "o", "s", "t", "_", "b", "o", "d", "y">>,
     caption  |-> <<"p", "o", "s", "t", "_", "c", "a", "p", "t", "i", "o", "n">>,
     question |-> <<"p", "o", "s", "t", "_", "q", "u", "e", "s", "t", "i", "o", "n">>,
     answer   |-> <<"p", "o", "s", "t", "_", "a", "n", "s", "w", "e", "r">>]

\* check_post_content_for_location(post): the set of results the call can
\* return, {None} when no content field mentions a location
check_post_content_for_location(post) ==
    LET present == SelectSeq(ContentKeys, LAMBDA k : k \in DOMAIN post)
        content_fields == [i \in 1..Len(present) |-> <<present[i], post[present[i]]>>]
        text_clean == [i \in 1..Len(present) |-> StripTags(content_fields[i][2])]
        f == FirstMatchingField(content_fields, text_clean)
    IN  IF f # 0
        THEN {<<location, PostSource[content_fields[f][1]]>> :
                 location \in TermsIn(lower(text_clean[f]))}
        ELSE {None}

\* f"{location_term} (in {source})"
Mention(location_term, source) ==
    location_term \o <<" ", "(", "i", "n", " ">> \o source \o <<")">>

\* first_mention.split(' (in')[0] if ' (in' in first_mention else first_mention
MentionTerm(first_mention) ==
    LET sep  == <<" ", "(", "i", "n">>
        at   == {i \in 1..Len(first_mention) : OccursAt(sep, first_mention, i)}
        frst == CHOOSE i \in at : \A k \in at : i <= k
    IN  IF at = {} THEN first_mention ELSE SubSeq(first_mention, 1, frst - 1)

\* a variant of DaysSince that counts a started day as a whole one
DaysSinceRoundedUp(t, updated) == (t - updated + DaySeconds - 1) \div DaySeconds

\* (datetime.now() - last_post_date).days
DaysSince(t, updated) == (t - updated) \div DaySeconds

\* last_post_date.strftime('%Y-%m-%d') if last_post_date else '': the day, or <<>>
DateString(last_post_date) ==
    IF last_post_date = None THEN <<>> ELSE <<last_post_date[1] \div DaySeconds>>

\* meets_criteria(blog_info, min_followers, max_days_inactive) at time t
meets_criteria(blog_info, min_followers, max_days_inactive, t) ==
    LET followers == Get(blog_info, "total_followers", 0)
        updated   == Get(blog_info, "updated", 0)
    IN  IF followers < min_followers THEN <<FALSE, None>>
        ELSE IF updated = 0 THEN <<FALSE, None>>
        ELSE IF DaysSince(t, updated) > max_days_inactive
             THEN <<FALSE, <<updated>>>>
             ELSE <<TRUE, <<updated>>>>

----------------------------------------------------------------------------
(* The inputs of a run and the upstream service *)

\* max_posts_per_theme: one full page and one more post
MaxPostsPerTheme == 21
\* transport errors the upstream raises in one run, at most
MaxErrors == 1
\* pauses of the process (time passing beyond its own sleeps), at most
MaxPauses == 1
\* processes started one after the other on the same progress file, at most
MaxRuns == 2
RollBudget == 11

PageCap == 20
CourtesyDelay == 2
SaveEvery == 10

\* the command line: --themes b,a,c --max-posts-per-theme MaxPostsPerTheme
\* --min-followers 10 --max-days-inactive 90
args ==
    [themes              |-> <<"b", "a", "c">>,
     max_posts_per_theme |-> MaxPostsPerTheme,
     min_followers       |-> 10,
     max_days_inactive   |-> 90]

\* blogs that only fill a batch of candidates: too few followers, no location
FillerBlogs == <<"f1", "f2", "f3", "f4", "f5", "f6", "f7", "f8", "f9">>

Blogs == {"w", "x", "y", "z"} \cup {FillerBlogs[i] : i \in 1..Len(FillerBlogs)}

\* client.blog_info(blog_name)['blog'] of each blog:
\*   w  eligible, no location in its profile
\*   x  eligible, "Oakland" in its title
\*   y  eligible, no location in its profile
\*   z  too few followers, "SF" in its title
\*   f1 .. f9  too few followers, no location in its profile
BlogProfile(blog_name) ==
    CASE blog_name = "w" ->
           [url |-> <<"w", ".", "t", "u", "m", "b", "l", "r", ".", "c", "o", "m">>, title |-> <<"d", "o", "g", "s">>, description |-> <<>>,
            tags |-> <<<<"d", "o", "g", "s">>>>, total_followers |-> 40, posts |-> 7,
            updated |-> StartTime - 3 * DaySeconds]
      [] blog_name = "x" ->
           [url |-> <<"x", ".", "t", "u", "m", "b", "l", "r", ".", "c", "o", "m">>, title |-> <<"O", "a", "k", "l", "a", "n", "d", " ", "c", "a", "t", "s">>, description |-> <<"c", "a", "t", "s">>,
            total_followers |-> 50, posts |-> 12,
            updated |-> StartTime - DaySeconds]
      [] blog_name = "y" ->
           [url |-> <<"y", ".", "t", "u", "m", "b", "l", "r", ".", "c", "o", "m">>, title |-> <<"c", "a", "t", "s">>, description |-> <<>>,
            total_followers |-> 10, posts |-> 3,
            updated |-> StartTime - 80 * DaySeconds]
      [] blog_name = "z" ->
           [url |-> <<"z", ".", "t", "u", "m", "b", "l", "r", ".", "c", "o", "m">>, title |-> <<"S", "F">>, description |-> <<>>,
            total_followers |-> 5, posts |-> 1,
            updated |-> StartTime - DaySeconds]
      [] OTHER ->
           [url |-> <<"f">>, title |-> <<"h", "i">>, description |-> <<>>,
            total_followers |-> 3, posts |-> 1,
            updated |-> StartTime - DaySeconds]

\* the posts tagged "b", newest first: 21 posts of w, x, y, z in turn; the
\* first post of w says "<p>Living in SF now</p>", its second "Oakland"
FeedAuthors == <<"x", "y", "z", "w">>
PostB(i) ==
    LET author == FeedAuthors[((i - 1) % 4) + 1]
        text   == IF i = 4 THEN <<"<", "p", ">", "L", "i", "v", "i", "n", "g", " ", "i", "n", " ", "S", "F", " ", "n", "o", "w", "<", "/", "p", ">">>
                  ELSE IF i = 8 THEN <<"O", "a", "k", "l", "a", "n", "d">>
                  ELSE <<"h", "i">>
    IN  IF i % 2 = 0
        THEN [blog_name |-> author, body |-> text, timestamp |-> 3000 - i]
        ELSE [blog_name |-> author, caption |-> text, timestamp |-> 3000 - i]

\* the posts of each theme tag, newest first
Feed(theme) ==
    CASE theme = "b" -> [i \in 1..21 |-> PostB(i)]
      [] theme = "a" ->
           <<[blog_name |-> "x", body |-> <<"S", "F">>, timestamp |-> 2000],
             [blog_name |-> "y", question |-> <<>>, answer |-> <<"i", "n", " ", "<", "b", ">", "S", "F", "<", "/", "b", ">">>,
              timestamp |-> 1990]>>
      [] theme = "c" ->
           <<[blog_name |-> "w", caption |-> <<"h", "i">>, timestamp |-> 1500]>>
      [] OTHER -> <<>>

Min(a, b) == IF a <= b THEN a ELSE b

\* client.tagged(theme, before=before, limit=limit) of a well-behaved upstream:
\* the newest `limit` posts older than the cursor `before`; 0 stands for the
\* call without a cursor (the code tests `if before:`)
tagged(theme, cursor, limit) ==
    LET older == SelectSeq(Feed(theme),
                           LAMBDA p : cursor = 0 \/ p.timestamp < cursor)
    IN  SubSeq(older, 1, Min(limit, Len(older)))

\* the value of --max-posts-per-theme and the behaviour of the upstream in the
\* runs that study search_theme_tag; every other run has the command line of
\* args and the well-behaved upstream
QuotaChoices == {1, MaxPostsPerTheme}
UpstreamKinds == {"newest_first", "oldest_first", "ignores_limit", "ignores_cursor"}
SearchRuns ==
    {[fn |-> "search_theme_tag", max_posts |-> m, upstream |-> u, done |-> FALSE] :
        m \in QuotaChoices, u \in UpstreamKinds}

Reverse(seq) == [i \in 1..Len(seq) |-> seq[Len(seq) + 1 - i]]

\* what client.tagged answers for an upstream of the given kind: the page of
\* the well-behaved upstream, the same page oldest post first, every older
\* post whatever the limit, or the newest posts whatever the cursor
PageOf(kind, theme, cursor, limit) ==
    CASE kind = "oldest_first"   -> Reverse(tagged(theme, cursor, limit))
      [] kind = "ignores_limit"  -> tagged(theme, cursor, Len(Feed(theme)))
      [] kind = "ignores_cursor" -> tagged(theme, 0, limit)
      [] OTHER                   -> tagged(theme, cursor, limit)

----------------------------------------------------------------------------
(* AutoTumblrProfileFinder: the state of a fresh process *)

\* the history of a run: the gate (the last check_and_wait or outbound call),
\* the outbound calls attempted, per blog the blog_info calls attempted, the
\* themes whose search returned it and the location mentions the searches
\* returned for it, the posts the current search has seen, why it stopped and
\* the page requests it made (cursor, limit, posts returned; <<>>: it raised),
\* the clock readings at which the tracker harness made its outbound calls, the values of `processed` at which the current batch saved
\* progress on its way (line 286), whether check_and_wait has denied budget,
\* what the process before this one ended with (<<>>: none is remembered),
\* the calls attempted when process_blogs was denied budget (<<>>: it was
\* not), the progress a resume loaded, and the tracker as it was at the last
\* save_progress
NewHistory ==
    [gate            |-> "none",
     calls_attempted |-> 0,
     fetches         |-> [b \in Blogs |-> 0],
     found_under     |-> [b \in Blogs |-> {}],
     evidence        |-> [b \in Blogs |-> {}],
     seen_posts      |-> {},
     stop_reason     |-> "none",
     requests        |-> <<>>,
     call_times      |-> <<>>,
     saved_at        |-> {},
     budget_stop     |-> FALSE,
     earlier_run     |-> <<>>,
     denied          |-> <<>>,
     loaded          |-> <<>>,
     saved_tracker   |-> <<>>]

\* TumblrProfileFinder.__init__, AutoTumblrProfileFinder.__init__ and the
\* locals of the methods before they run
PipeInit ==
    /\ discovered_blogs = <<>>
    /\ blog_themes = <<>>
    /\ file = <<>>
    /\ resume = FALSE
    /\ theme_i = 0
    /\ blog_locations = <<>>
    /\ before = 0
    /\ posts_retrieved = 0
    /\ processed = 0
    /\ exported = <<>>
    /\ exit_code = <<>>
    /\ run = 1
    /\ errors = 0
    /\ hist = NewHistory

----------------------------------------------------------------------------
(* AutoTumblrProfileFinder: helpers of the methods *)

Range(seq) == {seq[i] : i \in 1..Len(seq)}

\* list(v) of a set v: some enumeration of it without repetition
SetToList(v) ==
    CHOOSE l \in [1..Cardinality(v) -> v] : Range(l) = v

\* sorted(themes_set); theme tags of the model are single lower-case letters
ThemeRank(theme) == CHOOSE i \in 1..Len(LowerChars) : LowerChars[i] = theme
RECURSIVE sorted(_)
sorted(themes_set) ==
    IF themes_set = {} THEN <<>>
    ELSE LET least == CHOOSE t \in themes_set :
                          \A u \in themes_set : ThemeRank(t) <= ThemeRank(u)
         IN  <<least>> \o sorted(themes_set \ {least})

\* RateLimitTracker.get_status
get_status(rt) ==
    [hourly_calls |-> rt.hourly_calls,
     hourly_limit |-> rt.hourly_limit,
     daily_calls  |-> rt.daily_calls,
     daily_limit  |-> rt.daily_limit,
     total_calls  |-> rt.total_calls]

\* save_progress: the contents written to the progress file at time t
save_progress(discovered, themes, rt, t) ==
    [discovered_blogs  |-> discovered,
     blog_themes       |-> [k \in DOMAIN themes |-> SetToList(themes[k])],
     rate_limit_status |-> get_status(rt),
     timestamp         |-> t]

\* a variant of LoadedThemes that keeps one theme of each list
LoadedThemesOneEach(progress) ==
    LET blog_themes_lists == Get(progress, "blog_themes", <<>>)
    IN  [k \in DOMAIN blog_themes_lists |->
            IF blog_themes_lists[k] = <<>> THEN {}
            ELSE {blog_themes_lists[k][1]}]

\* load_progress, lines 122-126: the two dicts restored from the file contents
LoadedBlogs(progress) == Get(progress, "discovered_blogs", <<>>)
LoadedThemes(progress) ==
    LET blog_themes_lists == Get(progress, "blog_themes", <<>>)
    IN  [k \in DOMAIN blog_themes_lists |-> Range(blog_themes_lists[k])]

\* a variant of AddTheme that forgets the themes the blog had
SetTheme(themes, blog_name, theme) ==
    (blog_name :> {theme}) @@ themes

\* self.blog_themes[blog_name].add(theme) on the defaultdict
AddTheme(themes, blog_name, theme) ==
    (blog_name :> (Get(themes, blog_name, {}) \cup {theme})) @@ themes

\* the position of blog_name among the items of a blog_locations dict (0: absent)
ItemIndex(locations, blog_name) ==
    IF \E i \in 1..Len(locations) : locations[i].blog_name = blog_name
    THEN CHOOSE i \in 1..Len(locations) : locations[i].blog_name = blog_name
    ELSE 0

\* blog_locations[blog_name].add(mention) on the defaultdict(set)
AddMention(locations, blog_name, mention) ==
    LET i == ItemIndex(locations, blog_name)
    IN  IF i = 0
        THEN Append(locations, [blog_name |-> blog_name, mentions |-> {mention}])
        ELSE [locations EXCEPT ![i].mentions = @ \cup {mention}]

\* a variant of AddPost that keeps only the blogs with a location mention
AddPostEvidenceOnly(locations, post, location_match) ==
    IF "blog_name" \in DOMAIN post /\ location_match # None
    THEN AddMention(locations, post.blog_name,
                    Mention(location_match[1], location_match[2]))
    ELSE locations

\* search_theme_tag, lines 171-178: one post, given what
\* check_post_content_for_location returned for it
AddPost(locations, post, location_match) ==
    IF "blog_name" \in DOMAIN post
    THEN LET blog_name == post.blog_name
             with_mention ==
                 IF location_match # None
                 THEN AddMention(locations, blog_name,
                                 Mention(location_match[1], location_match[2]))
                 ELSE locations
         IN  IF ItemIndex(with_mention, blog_name) = 0
             THEN Append(with_mention, [blog_name |-> blog_name, mentions |-> {}])
             ELSE with_mention
    ELSE locations

\* the posts the upstream holds, and search_theme_tag, line 173, on each:
\* check_post_content_for_location(post), worked out once
AllPosts == UNION {Range(Feed(t)) : t \in Range(args.themes)}
PostLocation ==
    [post \in AllPosts |-> check_post_content_for_location(post)] @@ <<>>

\* search_theme_tag, lines 170-178 over a response: the dicts the loop can end
\* with (one per choice of the location term of each post)
RECURSIVE ProcessPosts(_, _)
ProcessPosts(locations, response) ==
    IF response = <<>> THEN {locations}
    ELSE LET post == response[Len(response)]
         IN  UNION {{AddPost(earlier, post, m) :
                        m \in PostLocation[post]} :
                    earlier \in ProcessPosts(locations,
                                            SubSeq(response, 1, Len(response) - 1))}

\* search_theme_tag, lines 180-181 over a response: the cursor after it
RECURSIVE NextBefore(_, _)
NextBefore(cursor, response) ==
    IF response = <<>> THEN cursor
    ELSE NextBefore(IF "timestamp" \in DOMAIN Head(response)
                    THEN Head(response).timestamp ELSE cursor,
                    Tail(response))

\* a variant of AlreadyDiscovered that never skips
NeverDiscovered(discovered, blog_name) == FALSE

\* process_blogs, line 215: `blog_name in self.discovered_blogs`
AlreadyDiscovered(discovered, blog_name) == blog_name \in DOMAIN discovered

\* process_blogs, lines 266-278: the record stored for a qualified blog;
\* theme_matched is the text of one tag, written as the sequence of the tags
\* that ', '.join puts in it
BlogRecord(blog_name, blog_info, last_post_date, location_term, location_source, theme) ==
    [blog_name             |-> blog_name,
     blog_url              |-> Get(blog_info, "url", <<>>),
     title                 |-> Get(blog_info, "title", <<>>),
     description           |-> Get(blog_info, "description", <<>>),
     follower_count        |-> Get(blog_info, "total_followers", 0),
     total_posts           |-> Get(blog_info, "posts", 0),
     last_post_date        |-> DateString(last_post_date),
     location_match_term   |-> location_term,
     location_match_source |-> location_source,
     blog_tags             |-> Get(blog_info, "tags", <<>>),
     theme_matched         |-> <<theme>>]

\* process_blogs, lines 248-255: find_location_match on the profile
ProfileMatch(blog_info) ==
    find_location_match(
        <<<<"url", Get(blog_info, "url", <<>>)>>,
          <<"title", Get(blog_info, "title", <<>>)>>,
          <<"description", Get(blog_info, "description", <<>>)>>>>,
        Get(blog_info, "tags", <<>>))

\* ProfileMatch on the profile of each blog of the upstream, worked out once
ProfileMatches == [b \in Blogs |-> ProfileMatch(BlogProfile(b))] @@ <<>>

\* a variant of ResolveLocation that asks the profile first
ResolveLocationProfileFirst(post_location_mentions, profile_match) ==
    IF profile_match # {None} THEN profile_match
    ELSE IF post_location_mentions # {}
    THEN {<<MentionTerm(first_mention), "post_content">> :
             first_mention \in post_location_mentions}
    ELSE {None}

\* process_blogs, lines 237-261: the <<term, source>> pairs the location
\* resolution can end with, {None} when the candidate has no location
ResolveLocation(post_location_mentions, profile_match) ==
    IF post_location_mentions # {}
    THEN {<<MentionTerm(first_mention), "post_content">> :
             first_mention \in post_location_mentions}
    ELSE profile_match

\* run_search, lines 386-388: theme_matched of every qualified blog rewritten
UpdateThemeMatched(discovered, themes) ==
    [b \in DOMAIN discovered |->
        IF b \in DOMAIN themes
        THEN [discovered[b] EXCEPT !.theme_matched = sorted(themes[b])]
        ELSE discovered[b]]

----------------------------------------------------------------------------
(* SpecGov: the tracker under its callers' protocol *)

GovInit ==
    /\ now = StartTime
    /\ rate_tracker = NewRateLimitTracker(SafetyMargin + HourlyBudget,
                                          SafetyMargin + DailyBudget, StartTime)
    /\ chk = NoCheck
    /\ elapses = 0
    /\ pc = "gov_idle"
    /\ PipeInit
    /\ call = NoCall
    /\ search_themes = args.themes

\* a caller asks for budget
GovCheck ==
    /\ pc = "gov_idle"
    /\ LET c == check_and_wait(rate_tracker, now)
       IN  /\ chk' = Checked(rate_tracker, now)
           /\ rate_tracker' = c.rt
           /\ now' = c.now
           /\ pc' = IF c.ret THEN "gov_call" ELSE "gov_idle"
    /\ UNCHANGED <<elapses, pipevars>>

\* the caller does its unit of work and records it
GovRecord ==
    /\ pc = "gov_call"
    /\ rate_tracker' = record_call(rate_tracker)
    /\ pc' = "gov_idle"
    /\ UNCHANGED <<now, chk, elapses, pipevars>>

\* wall-clock time passes
GovElapse ==
    /\ pc \in {"gov_idle", "gov_call"}
    /\ elapses < MaxElapses
    /\ \E d \in ElapseSteps : now' = now + d
    /\ elapses' = elapses + 1
    /\ UNCHANGED <<rate_tracker, chk, pc, pipevars>>

GovNext == GovCheck \/ GovRecord \/ GovElapse

SpecGov == GovInit /\ [][GovNext]_vars

----------------------------------------------------------------------------
(* SpecRoll: the tracker under its callers' protocol with an hourly limit at
   the safety margin or RollBudget above it, the time of every outbound call
   remembered; the daily limit is out of reach and the environment lets time
   pass once *)

MaxRollCalls == 2 * RollBudget

RollInit ==
    /\ now = StartTime
    /\ \E hourly_budget \in {0, RollBudget} :
          rate_tracker = NewRateLimitTracker(SafetyMargin + hourly_budget,
                                             SafetyMargin + MaxRollCalls + 1,
                                             StartTime)
    /\ chk = NoCheck
    /\ elapses = MaxElapses - 1
    /\ pc = "gov_idle"
    /\ PipeInit
    /\ call = NoCall
    /\ search_themes = args.themes

\* the caller makes its outbound call and records it (lines 137-139, 159-163)
RollCall ==
    /\ pc = "gov_call"
    /\ Len(hist.call_times) < MaxRollCalls
    /\ rate_tracker' = record_call(rate_tracker)
    /\ hist' = [hist EXCEPT !.call_times = Append(@, now)]
    /\ pc' = "gov_idle"
    /\ UNCHANGED <<now, chk, elapses, discovered_blogs, blog_themes, file,
                   resume, theme_i, blog_locations, before, posts_retrieved,
                   processed, exported, exit_code, run, errors, call,
                   search_themes>>

RollNext == GovCheck \/ RollCall \/ GovElapse

SpecRoll == RollInit /\ [][RollNext]_vars

----------------------------------------------------------------------------
(* Spec: main() of tumblr_profile_finder_auto.py, one step at a time *)

\* the positions inside the try block of main
Running == {"run_search", "search_check", "search_fetch", "search_return",
            "proc_next", "gbi_check", "gbi_fetch", "proc_none",
            "finalize", "export"}

theme == search_themes[theme_i]

\* the item process_blogs is at
item == blog_locations[processed]

Init ==
    /\ now = StartTime
    /\ \E budget \in 1..DailyBudget :
          rate_tracker = NewRateLimitTracker(SafetyMargin + HourlyBudget,
                                             SafetyMargin + budget, StartTime)
    /\ chk = NoCheck
    /\ elapses = 0
    /\ pc = "main"
    /\ PipeInit
    /\ call = NoCall
    /\ search_themes = args.themes

\* main, lines 328-341: load_progress when resuming, then run_search begins
Main_LoadProgress ==
    /\ pc = "main"
    /\ IF resume /\ file # <<>>
       THEN /\ discovered_blogs' = LoadedBlogs(file[1])
            /\ blog_themes' = LoadedThemes(file[1])
            /\ hist' = [hist EXCEPT !.loaded = file]
       ELSE UNCHANGED <<discovered_blogs, blog_themes, hist>>
    /\ theme_i' = 1
    /\ pc' = "run_search"
    /\ UNCHANGED <<now, rate_tracker, file, resume, call, search_themes, blog_locations, before,
                   posts_retrieved, processed, exported, exit_code, run,
                   errors, elapses, chk>>

\* run_search, line 377, and search_theme_tag, lines 143-145
RunSearch_NextTheme ==
    /\ pc = "run_search"
    /\ IF theme_i <= Len(search_themes)
       THEN /\ blog_locations' = <<>>
            /\ before' = 0
            /\ posts_retrieved' = 0
            /\ hist' = [hist EXCEPT !.seen_posts = {}, !.stop_reason = "none",
                                         !.requests = <<>>]
            /\ pc' = "search_check"
       ELSE /\ pc' = "finalize"
            /\ UNCHANGED <<blog_locations, before, posts_retrieved, hist>>
    /\ UNCHANGED <<now, rate_tracker, discovered_blogs, blog_themes, file,
                   resume, call, search_themes, theme_i, processed, exported, exit_code, run,
                   errors, elapses, chk>>

\* the max_posts that run_search hands to search_theme_tag
max_posts ==
    IF call.fn = "search_theme_tag" THEN call.max_posts
    ELSE args.max_posts_per_theme

\* search_theme_tag, lines 158-161: client.tagged with or without a cursor
client_tagged(tag, cursor, limit) ==
    PageOf(IF call.fn = "search_theme_tag" THEN call.upstream ELSE "newest_first",
           tag, cursor, limit)

\* a variant of PageLimit that always asks for a full page
PageLimitCapOnly(quota, retrieved) == PageCap

\* search_theme_tag, line 156: limit = min(20, max_posts - posts_retrieved)
PageLimit(quota, retrieved) == Min(PageCap, quota - retrieved)

\* a variant of Retrieved that does not count the page
RetrievedNothing(retrieved, response) == retrieved

\* search_theme_tag, line 183: posts_retrieved += len(response)
Retrieved(retrieved, response) == retrieved + Len(response)

\* search_theme_tag, lines 149-153: the loop test and check_and_wait
Search_Check ==
    /\ pc = "search_check"
    /\ IF posts_retrieved < max_posts
       THEN LET c == check_and_wait(rate_tracker, now)
            IN  /\ chk' = Checked(rate_tracker, now)
                /\ rate_tracker' = c.rt
                /\ now' = c.now
                /\ IF c.ret
                   THEN /\ hist' = [hist EXCEPT !.gate = "allowed"]
                        /\ pc' = "search_fetch"
                   ELSE /\ hist' = [hist EXCEPT !.gate = "denied", !.budget_stop = TRUE,
                                                !.stop_reason = "budget"]
                        /\ pc' = "search_return"
       ELSE /\ hist' = [hist EXCEPT !.stop_reason = "quota"]
            /\ pc' = "search_return"
            /\ UNCHANGED <<chk, rate_tracker, now>>
    /\ UNCHANGED <<discovered_blogs, blog_themes, file, resume, call, search_themes, theme_i,
                   blog_locations, before, posts_retrieved, processed,
                   exported, exit_code, run, errors, elapses>>

\* a variant of AfterException that returns nothing
AfterExceptionEmpty(locations) == <<>>

\* search_theme_tag, lines 195-201: the except clause leaves the loop and the
\* dict built so far is returned
AfterException(locations) == locations

\* search_theme_tag, lines 155-197: one page is asked for; the call raises, or
\* answers and the page is processed
Search_Fetch ==
    /\ pc = "search_fetch"
    /\ LET limit == PageLimit(max_posts, posts_retrieved)
           response == client_tagged(theme, before, limit)
           request(returned) == [before |-> before, limit |-> limit,
                                 returned |-> returned]
           called == [hist EXCEPT !.gate = "spent",
                                  !.calls_attempted = @ + 1,
                                  !.requests = Append(@, request(<<Len(response)>>))]
       IN  \/ /\ errors < MaxErrors
              /\ errors' = errors + 1
              /\ hist' = [hist EXCEPT !.gate = "spent",
                                       !.calls_attempted = @ + 1,
                                       !.requests = Append(@, request(<<>>)),
                                       !.stop_reason = "error"]
              /\ blog_locations' = AfterException(blog_locations)
              /\ pc' = "search_return"
              /\ UNCHANGED <<rate_tracker, before, posts_retrieved, now>>
           \/ /\ rate_tracker' = record_call(rate_tracker)
              /\ errors' = errors
              /\ IF response = <<>>
                 THEN /\ hist' = [called EXCEPT !.stop_reason = "empty"]
                      /\ pc' = "search_return"
                      /\ UNCHANGED <<blog_locations, before, posts_retrieved, now>>
                 ELSE /\ blog_locations' \in ProcessPosts(blog_locations, response)
                      /\ before' = NextBefore(before, response)
                      /\ posts_retrieved' = Retrieved(posts_retrieved, response)
                      /\ IF Len(response) < limit
                         THEN /\ hist' = [called EXCEPT
                                             !.seen_posts = @ \cup Range(response),
                                             !.stop_reason = "short"]
                              /\ pc' = "search_return"
                              /\ now' = now
                         ELSE /\ hist' = [called EXCEPT
                                             !.seen_posts = @ \cup Range(response)]
                              /\ pc' = "search_check"
                              /\ now' = now + CourtesyDelay
    /\ UNCHANGED <<discovered_blogs, blog_themes, file, resume, call, search_themes, theme_i,
                   processed, exported, exit_code, run, elapses, chk>>

\* search_theme_tag, line 201, and run_search, lines 379-383: the dict is
\* returned; process_blogs starts on it unless it is empty
Search_Return ==
    /\ pc = "search_return"
    /\ hist' = [hist EXCEPT !.found_under =
                   [b \in Blogs |->
                       IF ItemIndex(blog_locations, b) # 0
                       THEN @[b] \cup {theme} ELSE @[b]],
                            !.evidence =
                   [b \in Blogs |->
                       IF ItemIndex(blog_locations, b) # 0
                       THEN @[b] \cup
                            blog_locations[ItemIndex(blog_locations, b)].mentions
                       ELSE @[b]],
                            !.saved_at = {}]
    /\ IF blog_locations # <<>>
       THEN /\ processed' = 0
            /\ pc' = "proc_next"
            /\ UNCHANGED theme_i
       ELSE /\ theme_i' = theme_i + 1
            /\ pc' = "run_search"
            /\ UNCHANGED processed
    /\ UNCHANGED <<now, rate_tracker, discovered_blogs, blog_themes, file,
                   resume, call, search_themes, blog_locations, before, posts_retrieved, exported,
                   exit_code, run, errors, elapses, chk>>

\* process_blogs, lines 211-217: the next item; an already qualified blog only
\* gets the theme added
Process_Next ==
    /\ pc = "proc_next"
    /\ processed < Len(blog_locations)
    /\ processed' = processed + 1
    /\ LET blog_name == blog_locations[processed + 1].blog_name
       IN  IF AlreadyDiscovered(discovered_blogs, blog_name)
           THEN /\ blog_themes' = AddTheme(blog_themes, blog_name, theme)
                /\ pc' = "proc_next"
           ELSE /\ pc' = "gbi_check"
                /\ UNCHANGED blog_themes
    /\ UNCHANGED <<now, rate_tracker, discovered_blogs, file, resume, call, search_themes, theme_i,
                   blog_locations, before, posts_retrieved, exported,
                   exit_code, run, errors, elapses, chk, hist>>

\* process_blogs, lines 290-291: the batch is over, progress is saved
Process_End ==
    /\ pc = "proc_next"
    /\ processed = Len(blog_locations)
    /\ file' = <<save_progress(discovered_blogs, blog_themes, rate_tracker, now)>>
    /\ hist' = [hist EXCEPT !.saved_tracker = <<rate_tracker>>]
    /\ theme_i' = theme_i + 1
    /\ pc' = "run_search"
    /\ UNCHANGED <<now, rate_tracker, discovered_blogs, blog_themes, resume, call, search_themes,
                   blog_locations, before, posts_retrieved, processed,
                   exported, exit_code, run, errors, elapses, chk>>

\* a variant of GetBlogInfo_Check that goes on to the call without asking
GetBlogInfo_Unchecked ==
    /\ pc = "gbi_check"
    /\ rate_tracker' = record_call(rate_tracker)
    /\ pc' = "gbi_fetch"
    /\ UNCHANGED <<now, chk, elapses, pipevars>>

\* get_blog_info, lines 135-138: check_and_wait, then record_call
GetBlogInfo_Check ==
    /\ pc = "gbi_check"
    /\ LET c == check_and_wait(rate_tracker, now)
       IN  /\ chk' = Checked(rate_tracker, now)
           /\ now' = c.now
           /\ IF c.ret
              THEN /\ rate_tracker' = record_call(c.rt)
                   /\ hist' = [hist EXCEPT !.gate = "allowed"]
                   /\ pc' = "gbi_fetch"
              ELSE /\ rate_tracker' = c.rt
                   /\ hist' = [hist EXCEPT !.gate = "denied", !.budget_stop = TRUE]
                   /\ pc' = "proc_none"
    /\ UNCHANGED <<discovered_blogs, blog_themes, file, resume, call, search_themes, theme_i,
                   blog_locations, before, posts_retrieved, processed,
                   exported, exit_code, run, errors, elapses>>

\* get_blog_info, line 139 (the base class, lines 109-118), and process_blogs,
\* lines 229-288, on what it returned
GetBlogInfo_Fetch ==
    /\ pc = "gbi_fetch"
    /\ LET blog_name == item.blog_name
           blog_info == BlogProfile(blog_name)
           called == [hist EXCEPT !.gate = "spent",
                                  !.calls_attempted = @ + 1,
                                  !.fetches[blog_name] = @ + 1]
           met == meets_criteria(blog_info, args.min_followers,
                                 args.max_days_inactive, now)
       IN  \/ \* an error envelope or an exception: None
              /\ errors < MaxErrors
              /\ errors' = errors + 1
              /\ hist' = called
              /\ pc' = "proc_none"
              /\ UNCHANGED <<discovered_blogs, blog_themes, file, now>>
           \/ /\ errors' = errors
              /\ pc' = "proc_next"
              /\ \E location \in ResolveLocation(item.mentions,
                                               ProfileMatches[blog_name]) :
                    IF met[1] /\ location # None
                    THEN /\ discovered_blogs' =
                               (blog_name :> BlogRecord(blog_name, blog_info, met[2],
                                                        location[1], location[2],
                                                        theme))
                               @@ discovered_blogs
                         /\ blog_themes' = AddTheme(blog_themes, blog_name, theme)
                         /\ IF processed % SaveEvery = 0
                            THEN /\ file' = <<save_progress(discovered_blogs',
                                                blog_themes', rate_tracker, now)>>
                                 /\ hist' = [called EXCEPT
                                               !.saved_tracker = <<rate_tracker>>,
                                               !.saved_at = @ \cup {processed}]
                            ELSE /\ file' = file
                                 /\ hist' = called
                         /\ now' = now + CourtesyDelay
                    ELSE /\ hist' = called
                         /\ UNCHANGED <<discovered_blogs, blog_themes, file, now>>
    /\ UNCHANGED <<rate_tracker, resume, call, search_themes, theme_i, blog_locations, before,
                   posts_retrieved, processed, exported, exit_code, run,
                   elapses, chk>>

\* a variant of Process_NoInfo that ends the batch whatever the tracker says
Process_NoInfoStop ==
    /\ pc = "proc_none"
    /\ LET c == check_and_wait(rate_tracker, now)
       IN  /\ chk' = Checked(rate_tracker, now)
           /\ rate_tracker' = c.rt
           /\ now' = c.now
           /\ file' = <<save_progress(discovered_blogs, blog_themes, c.rt, c.now)>>
           /\ hist' = [hist EXCEPT !.gate = IF c.ret THEN "allowed" ELSE "denied",
                                   !.saved_tracker = <<c.rt>>]
           /\ theme_i' = theme_i + 1
           /\ pc' = "run_search"
    /\ UNCHANGED <<discovered_blogs, blog_themes, resume, call, search_themes, blog_locations,
                   before, posts_retrieved, processed, exported, exit_code,
                   run, errors, elapses>>

\* process_blogs, lines 221-227: get_blog_info returned None; check_and_wait
\* tells a denial (save and return) from a failed fetch (next item)
Process_NoInfo ==
    /\ pc = "proc_none"
    /\ LET c == check_and_wait(rate_tracker, now)
       IN  /\ chk' = Checked(rate_tracker, now)
           /\ rate_tracker' = c.rt
           /\ now' = c.now
           /\ IF c.ret
              THEN /\ hist' = [hist EXCEPT !.gate = "allowed"]
                   /\ pc' = "proc_next"
                   /\ UNCHANGED <<file, theme_i>>
              ELSE /\ file' = <<save_progress(discovered_blogs, blog_themes,
                                              c.rt, c.now)>>
                   /\ hist' = [hist EXCEPT !.gate = "denied", !.budget_stop = TRUE,
                                           !.denied = <<hist.calls_attempted>>,
                                           !.saved_tracker = <<c.rt>>]
                   /\ theme_i' = theme_i + 1
                   /\ pc' = "run_search"
    /\ UNCHANGED <<discovered_blogs, blog_themes, resume, call, search_themes, blog_locations,
                   before, posts_retrieved, processed, exported, exit_code,
                   run, errors, elapses>>

\* run_search, lines 385-388: theme_matched is rewritten
RunSearch_Finalize ==
    /\ pc = "finalize"
    /\ discovered_blogs' = UpdateThemeMatched(discovered_blogs, blog_themes)
    /\ pc' = "export"
    /\ UNCHANGED <<now, rate_tracker, blog_themes, file, resume, call, search_themes, theme_i,
                   blog_locations, before, posts_retrieved, processed,
                   exported, exit_code, run, errors, elapses, chk, hist>>

\* export_results: what is written when there is something to write
export_results(discovered, files) ==
    IF DOMAIN discovered = {} THEN files ELSE <<discovered>>

\* main, lines 342-353: export_results and the normal exit
Main_Export ==
    /\ pc = "export"
    /\ exported' = export_results(discovered_blogs, exported)
    /\ exit_code' = <<0>>
    /\ pc' = "done"
    /\ UNCHANGED <<now, rate_tracker, discovered_blogs, blog_themes, file,
                   resume, call, search_themes, theme_i, blog_locations, before, posts_retrieved,
                   processed, run, errors, elapses, chk, hist>>

\* a variant of Main_Interrupt that leaves without saving or exporting
Main_InterruptNoSave ==
    /\ pc \in Running
    /\ exit_code' = <<1>>
    /\ pc' = "done"
    /\ UNCHANGED <<now, rate_tracker, discovered_blogs, blog_themes, file,
                   resume, call, search_themes, theme_i, blog_locations, before, posts_retrieved,
                   processed, exported, run, errors, elapses, chk, hist>>

\* main, lines 355-360: KeyboardInterrupt anywhere in the try block
Main_Interrupt ==
    /\ pc \in Running
    /\ file' = <<save_progress(discovered_blogs, blog_themes, rate_tracker, now)>>
    /\ hist' = [hist EXCEPT !.saved_tracker = <<rate_tracker>>]
    /\ exported' = export_results(discovered_blogs, exported)
    /\ exit_code' = <<1>>
    /\ pc' = "done"
    /\ UNCHANGED <<now, rate_tracker, discovered_blogs, blog_themes, resume, call, search_themes,
                   theme_i, blog_locations, before, posts_retrieved, processed,
                   run, errors, elapses, chk>>

\* the positions just before check_and_wait reads datetime.now()
ClockReads == {"search_check", "gbi_check", "proc_none"}

\* wall-clock time passes while the process runs; the tracker observes it
\* only at its next reading of the clock, so a pause is placed just before one
Elapse ==
    /\ pc \in ClockReads
    /\ elapses < MaxPauses
    /\ \E d \in PauseSteps : now' = now + d
    /\ elapses' = elapses + 1
    /\ UNCHANGED <<rate_tracker, chk, pc, pipevars>>

Next ==
    \/ Main_LoadProgress
    \/ RunSearch_NextTheme
    \/ Search_Check
    \/ Search_Fetch
    \/ Search_Return
    \/ Process_Next
    \/ Process_End
    \/ GetBlogInfo_Check
    \/ GetBlogInfo_Fetch
    \/ Process_NoInfo
    \/ RunSearch_Finalize
    \/ Main_Export
    \/ Main_Interrupt
    \/ Elapse

Spec == Init /\ [][Next]_vars

----------------------------------------------------------------------------
(* SpecResume: main() run again with --resume after an earlier run ended *)

\* the process has exited and main starts again with --resume: a new finder
\* (__init__, lines 96-100) with a new RateLimitTracker; the progress file and
\* the exported file of the earlier run are still on disk
Restart ==
    /\ pc = "done"
    /\ run < MaxRuns
    /\ run' = run + 1
    /\ resume' = TRUE
    /\ rate_tracker' = NewRateLimitTracker(rate_tracker.hourly_limit,
                                          rate_tracker.daily_limit, now)
    /\ chk' = NoCheck
    /\ discovered_blogs' = <<>>
    /\ blog_themes' = <<>>
    /\ theme_i' = 0
    /\ blog_locations' = <<>>
    /\ before' = 0
    /\ posts_retrieved' = 0
    /\ processed' = 0
    /\ exit_code' = <<>>
    /\ hist' = [NewHistory EXCEPT !.saved_tracker = hist.saved_tracker]
    /\ pc' = "main"
    /\ UNCHANGED <<now, file, exported, errors, elapses, call, search_themes>>

\* the first run has the whole daily budget, enough to search every theme
ResumeInit ==
    /\ Init
    /\ rate_tracker.daily_limit = SafetyMargin + DailyBudget

ResumeNext == Next \/ Restart

SpecResume == ResumeInit /\ [][ResumeNext]_vars

----------------------------------------------------------------------------
(* SpecBatch: process_blogs over one batch of ten or eleven candidates *)

\* hourly and daily budget of the run that processes the batch: one search
\* call and a blog_info call for every candidate
BatchBudget == 12

\* the location mentions search_theme_tag returned for a blog of the batch
BatchMentions(blog_name) ==
    IF blog_name = "w" THEN {Mention(<<"s", "f">>, PostSource.body)} ELSE {}

\* the dict search_theme_tag returned: the filler blogs, then the blogs `last`
Batch(last) ==
    [i \in 1..(Len(FillerBlogs) + Len(last)) |->
        LET blog_name == IF i <= Len(FillerBlogs) THEN FillerBlogs[i]
                         ELSE last[i - Len(FillerBlogs)]
        IN  [blog_name |-> blog_name, mentions |-> BatchMentions(blog_name)]]

\* the record an earlier run stored for a blog it qualified under theme "b"
KnownRecord(blog_name) ==
    LET blog_info == BlogProfile(blog_name)
        location == CHOOSE l \in ResolveLocation(BatchMentions(blog_name),
                                                 ProfileMatches[blog_name]) : TRUE
    IN  BlogRecord(blog_name, blog_info, <<blog_info.updated>>,
                   location[1], location[2], "b")

\* process_blogs is entered (line 208) on the batch the first search returned
\* in one call; the blogs `known` were loaded from the progress file
BatchInit ==
    /\ now = StartTime
    /\ rate_tracker = record_call(NewRateLimitTracker(SafetyMargin + BatchBudget,
                                                      SafetyMargin + BatchBudget,
                                                      StartTime))
    /\ chk = NoCheck
    /\ elapses = 0
    /\ pc = "proc_next"
    /\ \E known \in SUBSET {"w", "x"} :
          /\ discovered_blogs = [b \in known |-> KnownRecord(b)]
          /\ blog_themes = [b \in known |-> {"b"}]
          /\ resume = (known # {})
          /\ file = IF known = {} THEN <<>>
                    ELSE <<save_progress([b \in known |-> KnownRecord(b)],
                                         [b \in known |-> {"b"}],
                                         NewRateLimitTracker(SafetyMargin + BatchBudget,
                                                             SafetyMargin + BatchBudget,
                                                             StartTime - DaySeconds),
                                         StartTime - DaySeconds)>>
    /\ \E tenth \in {"w", "x", "y", "z"} :
          \E last \in {<<tenth>>} \cup {<<tenth, b>> : b \in {"w", "x", "y", "z"} \ {tenth}} :
             /\ blog_locations = Batch(last)
             /\ posts_retrieved = Len(blog_locations)
    /\ theme_i = 1
    /\ before = 0
    /\ processed = 0
    /\ exported = <<>>
    /\ exit_code = <<>>
    /\ run = 1
    /\ errors = 0
    /\ hist = [NewHistory EXCEPT !.gate = "spent", !.calls_attempted = 1,
                                 !.stop_reason = "short", !.loaded = file]
    /\ call = NoCall
    /\ search_themes = args.themes

\* process_blogs, lines 211-291
BatchNext ==
    \/ Process_Next
    \/ Process_End
    \/ GetBlogInfo_Check
    \/ GetBlogInfo_Fetch
    \/ Process_NoInfo

SpecBatch == BatchInit /\ [][BatchNext]_vars

----------------------------------------------------------------------------
(* SpecFn: find_location_match and meets_criteria called on their own, on  *)
(* arguments drawn from bounded sets                                       *)

\* the tags of a profile, at most
MaxTags == 2

\* str.capitalize() on a lower-case term
Capitalised(text) ==
    LET i == CHOOSE k \in 1..Len(LowerChars) : LowerChars[k] = text[1]
    IN  <<UpperChars[i]>> \o Tail(text)

\* another gazetteer term than T
OtherTerm(T) ==
    IF T = <<"o", "a", "k", "l", "a", "n", "d">> THEN <<"s", "f">> ELSE <<"o", "a", "k", "l", "a", "n", "d">>

\* texts in which the term T stands as a word, each with the other gazetteer
\* terms that stand as words in it
WordTexts(T) ==
    {[text |-> T, others |-> {}],
     [text |-> <<"I", "n", " ">> \o Capitalised(T) \o <<"!">>, others |-> {}],
     [text |-> Capitalised(OtherTerm(T)) \o <<",", " ">> \o T,
      others |-> {OtherTerm(T)}]}

\* texts in which T occurs only inside a longer word, each with the gazetteer
\* terms that stand as words in it
InsideTexts(T) ==
    {[text |-> <<"x">> \o T, others |-> {}],
     [text |-> T \o <<"t", "s">>, others |-> {}],
     [text |-> T \o <<"_", "1">>, others |-> {}],
     [text |-> T \o <<"s", " ">> \o OtherTerm(T), others |-> {OtherTerm(T)}]}

\* the texts of the fields of a profile, each with the gazetteer terms that
\* stand as words in it
FieldTexts ==
    {[text |-> <<>>, terms |-> {}],
     [text |-> <<"c", "a", "t", "s">>, terms |-> {}],
     [text |-> <<"O", "a", "k", "l", "a", "n", "d", ",", " ", "C", "A">>, terms |-> {<<"o", "a", "k", "l", "a", "n", "d">>, <<"c", "a">>}],
     [text |-> <<"S", "F">>, terms |-> {<<"s", "f">>}]}

\* the tags of a profile, each with the gazetteer terms that stand as words
\* in it
TagTexts ==
    {[text |-> <<"d", "o", "g", "s">>, terms |-> {}],
     [text |-> <<"o", "a", "k", "l", "a", "n", "d">>, terms |-> {<<"o", "a", "k", "l", "a", "n", "d">>}],
     [text |-> <<"S", "F">>, terms |-> {<<"s", "f">>}],
     [text |-> <<"B", "a", "y", " ", "A", "r", "e", "a", " ", "c", "a", "t", "s">>, terms |-> {<<"b", "a", "y", " ", "a", "r", "e", "a">>}]}

TagLists == UNION {[1..n -> TagTexts] : n \in 0..MaxTags}

\* the orders in which a caller can put the three fields into text_fields
FieldOrders == {<<"url", "title", "description">>,
                <<"description", "title", "url">>}

\* a call of find_location_match(text_fields, tags) about to be made;
\* field_terms and tag_terms say, for each field and each tag, which gazetteer
\* terms the text was built to hold as words
MatchCall(text_fields, tags, field_terms, tag_terms, about, kind) ==
    [fn          |-> "find_location_match",
     text_fields |-> text_fields,
     tags        |-> tags,
     field_terms |-> field_terms,
     tag_terms   |-> tag_terms,
     about       |-> about,
     kind        |-> kind,
     done        |-> FALSE,
     ret         |-> None]

\* the values of blog_info['total_followers'] and of the age of
\* blog_info['updated'] in seconds (None: the key is missing)
FollowerCounts == {None, <<0>>, <<9>>, <<10>>, <<11>>}
UpdatedAges ==
    {<<0>>, <<1>>, <<DaySeconds - 1>>, <<DaySeconds>>, <<DaySeconds + 1>>,
     <<90 * DaySeconds + 5>>, <<91 * DaySeconds - 1>>, <<91 * DaySeconds>>,
     <<0 - 5>>}

\* a blog_info dict with the keys that are given
CriteriaProfile(followers, updated) ==
    (IF followers = None THEN <<>> ELSE [total_followers |-> followers[1]])
    @@ (IF updated = None THEN <<>> ELSE [updated |-> updated[1]])

\* a call of meets_criteria(blog_info, min_followers, max_days_inactive)
\* about to be made
CriteriaCall(blog_info, min_followers, max_days_inactive) ==
    [fn                |-> "meets_criteria",
     blog_info         |-> blog_info,
     min_followers     |-> min_followers,
     max_days_inactive |-> max_days_inactive,
     done              |-> FALSE,
     ret               |-> None]

FnInit ==
    /\ now = StartTime
    /\ rate_tracker = NewRateLimitTracker(SafetyMargin + HourlyBudget,
                                          SafetyMargin + DailyBudget, StartTime)
    /\ chk = NoCheck
    /\ elapses = 0
    /\ pc = "fn_call"
    /\ PipeInit
    /\ search_themes = args.themes
    /\ \/ \E T \in LOCATION_INDICATORS : \E c \in WordTexts(T) :
             call = MatchCall(<<<<"title", c.text>>>>, <<>>,
                              <<{T} \cup c.others>>, <<>>, T, "word")
       \/ \E T \in LOCATION_INDICATORS : \E c \in InsideTexts(T) :
             call = MatchCall(<<<<"title", c.text>>>>, <<>>,
                              <<c.others>>, <<>>, T, "inside")
       \/ \E order \in FieldOrders : \E f \in [1..Len(order) -> FieldTexts] :
             \E t \in TagLists :
                call = MatchCall([i \in 1..Len(order) |-> <<order[i], f[i].text>>],
                                 [j \in 1..Len(t) |-> t[j].text],
                                 [i \in 1..Len(order) |-> f[i].terms],
                                 [j \in 1..Len(t) |-> t[j].terms],
                                 None, "fields")
       \/ \E followers \in FollowerCounts :
             \E updated \in {None, <<0>>} \cup {<<StartTime - a[1]>> : a \in UpdatedAges} :
                \E min_followers \in {0, 10} : \E max_days_inactive \in {0, 1, 90} :
                   call = CriteriaCall(CriteriaProfile(followers, updated),
                                       min_followers, max_days_inactive)

\* find_location_match(text_fields, tags) is called and returns
Call_find_location_match ==
    /\ pc = "fn_call"
    /\ call.fn = "find_location_match"
    /\ \E r \in find_location_match(call.text_fields, call.tags) :
          call' = [call EXCEPT !.done = TRUE, !.ret = r]
    /\ pc' = "fn_return"
    /\ UNCHANGED <<now, rate_tracker, chk, elapses, discovered_blogs,
                   blog_themes, file, resume, theme_i, blog_locations, before,
                   posts_retrieved, processed, exported, exit_code, run,
                   errors, hist, search_themes>>

\* meets_criteria(blog_info, min_followers, max_days_inactive) is called and
\* returns
Call_meets_criteria ==
    /\ pc = "fn_call"
    /\ call.fn = "meets_criteria"
    /\ call' = [call EXCEPT !.done = TRUE,
                            !.ret = meets_criteria(call.blog_info,
                                                   call.min_followers,
                                                   call.max_days_inactive, now)]
    /\ pc' = "fn_return"
    /\ UNCHANGED <<now, rate_tracker, chk, elapses, discovered_blogs,
                   blog_themes, file, resume, theme_i, blog_locations, before,
                   posts_retrieved, processed, exported, exit_code, run,
                   errors, hist, search_themes>>

FnNext == Call_find_location_match \/ Call_meets_criteria

SpecFn == FnInit /\ [][FnNext]_vars

----------------------------------------------------------------------------
(* SpecOrder: main() run to its end on some order of the themes, then run  *)
(* again from scratch on some order, against an upstream that raises no    *)
(* error                                                                   *)

\* the orders in which the themes of the command line can be given
ThemeOrders ==
    {order \in [1..Len(args.themes) -> Range(args.themes)] :
        Range(order) = Range(args.themes)}

\* what a process ended with
RunResult ==
    [search_themes    |-> search_themes,
     discovered_blogs |-> discovered_blogs,
     blog_themes      |-> blog_themes,
     budget_stop      |-> hist.budget_stop]

OrderInit ==
    /\ now = StartTime
    /\ \E budget \in 1..DailyBudget :
          rate_tracker = NewRateLimitTracker(SafetyMargin + HourlyBudget,
                                             SafetyMargin + budget, StartTime)
    /\ chk = NoCheck
    /\ elapses = 0
    /\ pc = "main"
    /\ search_themes \in ThemeOrders
    /\ discovered_blogs = <<>>
    /\ blog_themes = <<>>
    /\ file = <<>>
    /\ resume = FALSE
    /\ theme_i = 0
    /\ blog_locations = <<>>
    /\ before = 0
    /\ posts_retrieved = 0
    /\ processed = 0
    /\ exported = <<>>
    /\ exit_code = <<>>
    /\ run = 1
    /\ errors = MaxErrors
    /\ hist = NewHistory
    /\ call = NoCall

\* the process has exited and main is started again without --resume, on
\* some order of the same themes: a new finder (__init__, lines 96-100) with
\* a new RateLimitTracker
RunAgain ==
    /\ pc = "done"
    /\ run < MaxRuns
    /\ run' = run + 1
    /\ search_themes' \in ThemeOrders
    /\ rate_tracker' = NewRateLimitTracker(rate_tracker.hourly_limit,
                                          rate_tracker.daily_limit, now)
    /\ chk' = NoCheck
    /\ discovered_blogs' = <<>>
    /\ blog_themes' = <<>>
    /\ theme_i' = 0
    /\ blog_locations' = <<>>
    /\ before' = 0
    /\ posts_retrieved' = 0
    /\ processed' = 0
    /\ exit_code' = <<>>
    /\ hist' = [NewHistory EXCEPT !.earlier_run = <<RunResult>>]
    /\ pc' = "main"
    /\ UNCHANGED <<now, file, resume, exported, errors, elapses, call>>

OrderNext ==
    \/ Main_LoadProgress
    \/ RunSearch_NextTheme
    \/ Search_Check
    \/ Search_Fetch
    \/ Search_Return
    \/ Process_Next
    \/ Process_End
    \/ GetBlogInfo_Check
    \/ GetBlogInfo_Fetch
    \/ Process_NoInfo
    \/ RunSearch_Finalize
    \/ Main_Export
    \/ RunAgain

SpecOrder == OrderInit /\ [][OrderNext]_vars

----------------------------------------------------------------------------
(* SpecSearch: runs of main with some --max-posts-per-theme against each
   kind of upstream; the process runs on without being interrupted *)

SearchInit ==
    /\ now = StartTime
    /\ \E budget \in 1..DailyBudget :
          rate_tracker = NewRateLimitTracker(SafetyMargin + HourlyBudget,
                                             SafetyMargin + budget, StartTime)
    /\ chk = NoCheck
    /\ elapses = 0
    /\ pc = "main"
    /\ PipeInit
    /\ call \in SearchRuns
    /\ search_themes = args.themes

SearchNext ==
    \/ Main_LoadProgress
    \/ RunSearch_NextTheme
    \/ Search_Check
    \/ Search_Fetch
    \/ Search_Return
    \/ Process_Next
    \/ Process_End
    \/ GetBlogInfo_Check
    \/ GetBlogInfo_Fetch
    \/ Process_NoInfo
    \/ RunSearch_Finalize
    \/ Main_Export

SpecSearch == SearchInit /\ [][SearchNext]_vars

\* the process is never suspended for ever: it takes its next step, and
\* every sleep it makes ends
SpecSearchFair == SpecSearch /\ WF_vars(SearchNext)

----------------------------------------------------------------------------
(* Claims about the RateLimitTracker, checked under SpecGov *)

\* the last check_and_wait was entered with the daily counter at or above
\* daily_limit - 10 inside an unelapsed day window
EnteredAtDailyLimit ==
    /\ chk.valid
    /\ chk.pre.daily_calls >= chk.pre.daily_limit - SafetyMargin
    /\ chk.at - chk.pre.day_start < DaySeconds

\* the last check_and_wait was entered with the hourly counter at or above
\* hourly_limit - 10 inside an unelapsed hour window
EnteredAtHourlyLimit ==
    /\ chk.valid
    /\ chk.pre.hourly_calls >= chk.pre.hourly_limit - SafetyMargin
    /\ chk.at - chk.pre.hour_start < HourSeconds

\* C1: a check_and_wait entered with daily_calls >= daily_limit - 10 in an
\* unelapsed day window returns False and does not advance the clock (it does
\* not sleep), whatever hourly_calls is.
C1_DailyDenialDoesNotSleep ==
    EnteredAtDailyLimit => (chk.ret = FALSE /\ chk.after = chk.at)

----------------------------------------------------------------------------
(* Claims about one run of main, checked under Spec *)

\* a record of discovered_blogs without its theme list
Core(record) == [k \in DOMAIN record \ {"theme_matched"} |-> record[k]]

\* C3: an outbound call (client.tagged, client.blog_info) is issued only when
\* the last thing the tracker did was a check_and_wait that returned True, with
\* no outbound call and no denial since.
C3_CallsFollowAllowedCheck ==
    [][hist'.calls_attempted > hist.calls_attempted => hist.gate = "allowed"]_vars

\* an outbound call made after process_blogs had been denied budget, on a
\* later check that returned True
C3_Witness ==
    /\ hist.gate = "spent"
    /\ hist.denied # <<>>
    /\ hist.calls_attempted > hist.denied[1]

\* C4: whenever no blog_info call is in flight, total_calls equals the number
\* of outbound calls attempted, failed attempts included.
C4_TotalCallsCountAttempts ==
    pc # "gbi_fetch" => rate_tracker.total_calls = hist.calls_attempted

\* C5: after run_search has returned normally, a qualified blog that the
\* searches of two different themes returned has both themes in blog_themes
\* and in theme_matched.
C5_BothThemesPresent ==
    (pc = "done" /\ exit_code = <<0>>) =>
        \A b \in DOMAIN discovered_blogs :
            Cardinality(hist.found_under[b]) >= 2 =>
                /\ hist.found_under[b] \subseteq blog_themes[b]
                /\ hist.found_under[b]
                      \subseteq Range(discovered_blogs[b].theme_matched)

\* C8: once process_blogs has been denied budget, the number of outbound calls
\* attempted in the run stays what it was at the denial.
C8_NoCallsAfterDenial ==
    hist.denied # <<>> => hist.calls_attempted = hist.denied[1]

\* C9: in every step of a run, a blog in discovered_blogs stays there with its
\* record unchanged apart from theme_matched, and no blog's set in blog_themes
\* loses a theme.
C9_QualifiedSetOnlyGrows ==
    [][/\ \A b \in DOMAIN discovered_blogs :
             /\ b \in DOMAIN discovered_blogs'
             /\ Core(discovered_blogs'[b]) = Core(discovered_blogs[b])
       /\ \A b \in DOMAIN blog_themes :
             /\ b \in DOMAIN blog_themes'
             /\ blog_themes[b] \subseteq blog_themes'[b]]_vars

\* a qualified blog that a later theme found again
C9_Witness ==
    \E b \in DOMAIN discovered_blogs :
        /\ Cardinality(blog_themes[b]) >= 2
        /\ hist.fetches[b] = 1

\* C10: when search_theme_tag returns because check_and_wait denied budget, no
\* call was made after the denial, every blog with a post on the pages fetched
\* is a key of the dict returned, and every post on them that mentions a
\* location has its mention in the set of its blog.
C10_BudgetStopKeepsResults ==
    (pc = "search_return" /\ hist.stop_reason = "budget") =>
        /\ hist.gate = "denied"
        /\ \A post \in hist.seen_posts :
              "blog_name" \in DOMAIN post =>
                 LET i == ItemIndex(blog_locations, post.blog_name)
                 IN  /\ i # 0
                     /\ PostLocation[post] # {None} =>
                           \E m \in PostLocation[post] :
                              Mention(m[1], m[2]) \in blog_locations[i].mentions

\* a search stopped by the budget after a page with location evidence on it
C10_Witness ==
    /\ pc = "search_return"
    /\ hist.stop_reason = "budget"
    /\ \E post \in hist.seen_posts : PostLocation[post] # {None}
    /\ \E i \in 1..Len(blog_locations) : blog_locations[i].mentions # {}
    /\ \E i \in 1..Len(blog_locations) : blog_locations[i].mentions = {}

\* every blog with a post on the pages the current search fetched is a key of
\* blog_locations, and every such post that mentions a location has its
\* mention in the set of its blog
SeenPostsKept ==
    \A post \in hist.seen_posts :
        "blog_name" \in DOMAIN post =>
            LET i == ItemIndex(blog_locations, post.blog_name)
            IN  /\ i # 0
                /\ PostLocation[post] # {None} =>
                      \E m \in PostLocation[post] :
                         Mention(m[1], m[2]) \in blog_locations[i].mentions

\* C11: when a page fetch of search_theme_tag raised, the run has not ended,
\* the results of the pages fetched before are all in the dict returned, and
\* the next step of the run (short of a KeyboardInterrupt) is process_blogs on
\* that dict when it is not empty, and the search of the next theme otherwise.
C11_ErrorEndsOnlyThatSearch ==
    [][(pc = "search_return" /\ hist.stop_reason = "error") =>
          /\ exit_code = <<>>
          /\ SeenPostsKept
          /\ \/ pc' = "done" /\ exit_code' = <<1>>
             \/ /\ blog_locations # <<>>
                /\ pc' = "proc_next"
                /\ processed' = 0
                /\ blog_locations' = blog_locations
                /\ theme_i' = theme_i
             \/ /\ blog_locations = <<>>
                /\ pc' = "run_search"
                /\ theme_i' = theme_i + 1]_vars

\* process_blogs at work on what a search returned after its second page raised
C11_Witness ==
    /\ hist.stop_reason = "error"
    /\ pc = "gbi_fetch"
    /\ hist.seen_posts # {}
    /\ \E i \in 1..Len(blog_locations) : blog_locations[i].mentions # {}

\* C12: when the blog_info call for a candidate failed (an exception or an
\* error envelope), the candidate is not in discovered_blogs, the run has not
\* ended, and the next step of process_blogs leaves discovered_blogs as it is
\* and goes to the next candidate of the batch if check_and_wait returns True;
\* it ends the batch only if check_and_wait returns False.
C12_FailedFetchSkipsCandidate ==
    [][(pc = "proc_none" /\ hist.gate = "spent") =>
          /\ exit_code = <<>>
          /\ item.blog_name \notin DOMAIN discovered_blogs
          /\ discovered_blogs' = discovered_blogs
          /\ blog_themes' = blog_themes
          /\ \/ pc' = "done" /\ exit_code' = <<1>>
             \/ pc' = pc /\ chk' = chk
             \/ /\ chk'.ret = TRUE
                /\ pc' = "proc_next"
                /\ processed' = processed
                /\ blog_locations' = blog_locations
                /\ theme_i' = theme_i
             \/ /\ chk'.ret = FALSE
                /\ pc' = "run_search"]_vars

\* process_blogs back at its loop after a failed blog_info call, with a
\* candidate still to enrich
C12_Witness ==
    /\ pc = "proc_next"
    /\ hist.gate = "allowed"
    /\ processed < Len(blog_locations)
    /\ item.blog_name \notin DOMAIN discovered_blogs
    /\ hist.fetches[item.blog_name] = 1

\* C13: in a run in which no call has failed (every blog_info call ended with
\* the blog qualified, ineligible or without a location), no more than one
\* blog_info call has been made for any blog.
C13_FetchedAtMostOnce ==
    errors = 0 => \A b \in Blogs : hist.fetches[b] <= 1

\* C14: when blog_info is fetched for a candidate, the evidence set that
\* process_blogs holds for it contains every location mention that the
\* searches of the run so far (this theme's and the earlier themes') returned
\* for that blog.
C14_EvidenceAcrossThemes ==
    pc = "gbi_fetch" => hist.evidence[item.blog_name] \subseteq item.mentions

\* the blog_info call of the current candidate answers and the candidate is
\* eligible
EligibleAnswer ==
    /\ pc = "gbi_fetch"
    /\ pc' = "proc_next"
    /\ meets_criteria(BlogProfile(item.blog_name), args.min_followers,
                      args.max_days_inactive, now)[1]

\* C16: when an eligible candidate's location is resolved, then: if its
\* post-evidence set is not empty the candidate is recorded with source
\* "post_content" and a term of which the set holds a mention, whatever its
\* profile says; if the set is empty and find_location_match finds something
\* in the profile, the candidate is recorded with a term and source that
\* find_location_match can return; if the set is empty and the profile has no
\* match, the qualified set is left as it was.
C16_LocationResolution ==
    [][EligibleAnswer =>
         LET blog_name == item.blog_name
             profile_match == find_location_match(
                 <<<<"url", BlogProfile(blog_name).url>>,
                   <<"title", BlogProfile(blog_name).title>>,
                   <<"description", BlogProfile(blog_name).description>>>>,
                 Get(BlogProfile(blog_name), "tags", <<>>))
             recorded == discovered_blogs'[blog_name]
         IN  IF item.mentions # {}
             THEN /\ blog_name \in DOMAIN discovered_blogs'
                  /\ recorded.location_match_source = "post_content"
                  /\ \E content \in DOMAIN PostSource :
                        Mention(recorded.location_match_term, PostSource[content])
                            \in item.mentions
             ELSE IF profile_match # {None}
             THEN /\ blog_name \in DOMAIN discovered_blogs'
                  /\ <<recorded.location_match_term,
                       recorded.location_match_source>> \in profile_match
             ELSE discovered_blogs' = discovered_blogs]_vars

\* a run ended in which x, whose title names a location, was recorded from
\* its post evidence, and y was first left out for want of any location and
\* recorded under a later theme
C16_Witness ==
    /\ pc = "done"
    /\ exit_code = <<0>>
    /\ "x" \in DOMAIN discovered_blogs
    /\ discovered_blogs["x"].location_match_source = "post_content"
    /\ ProfileMatches["x"] # {None}
    /\ hist.fetches["y"] = 2
    /\ "y" \in DOMAIN discovered_blogs

----------------------------------------------------------------------------
(* Claims about a resumed run, checked under SpecResume *)

\* load_progress has just restored a file an earlier run saved
JustLoaded ==
    /\ pc = "run_search"
    /\ theme_i = 1
    /\ hist.loaded # <<>>
    /\ hist.saved_tracker # <<>>

\* C6: right after load_progress, the hourly counter is not below the one in
\* rate_limit_status of the file unless the hour window of the saved tracker
\* has elapsed, and the same for the daily counter and the day window.
C6_LoadRestoresCounters ==
    JustLoaded =>
        LET status == hist.loaded[1].rate_limit_status
            saved  == hist.saved_tracker[1]
        IN  /\ now - saved.hour_start < HourSeconds =>
                  rate_tracker.hourly_calls >= status.hourly_calls
            /\ now - saved.day_start < DaySeconds =>
                  rate_tracker.daily_calls >= status.daily_calls

\* C7: in a run that loaded progress, no blog_info call is made for a loaded
\* blog, its record apart from theme_matched is the loaded one, and its themes
\* are the loaded ones and themes under which this run's searches returned it.
C7_LoadedBlogsAreKept ==
    (hist.loaded # <<>> /\ pc # "main") =>
        \A b \in DOMAIN LoadedBlogs(hist.loaded[1]) :
            /\ hist.fetches[b] = 0
            /\ b \in DOMAIN discovered_blogs
            /\ Core(discovered_blogs[b]) = Core(LoadedBlogs(hist.loaded[1])[b])
            /\ LoadedThemes(hist.loaded[1])[b] \subseteq blog_themes[b]
            /\ blog_themes[b] \subseteq
                  LoadedThemes(hist.loaded[1])[b] \cup hist.found_under[b]

\* a loaded blog that the resumed run found under a theme it did not have
C7_Witness ==
    /\ hist.loaded # <<>>
    /\ pc # "main"
    /\ \E b \in DOMAIN LoadedBlogs(hist.loaded[1]) :
          /\ blog_themes[b] # LoadedThemes(hist.loaded[1])[b]
          /\ hist.fetches[b] = 0

----------------------------------------------------------------------------
(* Claims about one batch of process_blogs, checked under SpecBatch *)

\* C15: whenever process_blogs is between two candidates, progress was saved
\* at every multiple of 10 that the processed counter has reached in this
\* batch, whether the candidate that made it reach the multiple was skipped,
\* rejected or qualified.
C15_SavedEveryTenth ==
    pc = "proc_next" =>
        \A k \in 1..processed : k % SaveEvery = 0 => k \in hist.saved_at

----------------------------------------------------------------------------
(* Claims about the pure functions, checked under SpecFn *)

\* find_location_match has returned from a call about one gazetteer term
MatchedAbout(kind) ==
    /\ call.fn = "find_location_match"
    /\ call.done
    /\ call.kind = kind

\* C17 as claimed: for every gazetteer term T, find_location_match on a text
\* in which T stands as a word returns a match whose term is T, and on a text
\* in which T occurs only inside a longer word it returns None.
C17_WordYieldsTermInsideYieldsNone ==
    /\ MatchedAbout("word") => (call.ret # None /\ call.ret[1] = call.about)
    /\ MatchedAbout("inside") => call.ret = None

\* C17: for every gazetteer term T, find_location_match on a text in which T
\* stands as a word returns a match whose term is one of the gazetteer terms
\* that stand as words in the text (T itself when it is the only one); on a
\* text in which T occurs only inside a longer word it returns None when no
\* gazetteer term stands as a word in the text, and otherwise a match whose
\* term is one of those that do (never T).
C17_WordBoundaryMatch ==
    /\ MatchedAbout("word") =>
          /\ call.ret # None
          /\ call.ret[1] \in call.field_terms[1]
          /\ call.field_terms[1] = {call.about} => call.ret[1] = call.about
    /\ MatchedAbout("inside") =>
          IF call.field_terms[1] = {} THEN call.ret = None
          ELSE /\ call.ret # None
               /\ call.ret[1] \in call.field_terms[1]
               /\ call.ret[1] # call.about

\* "ca" was looked for in "cats" and not found, or "san francisco" was looked
\* for and found in "In San francisco!"
C17_Witness ==
    \/ /\ MatchedAbout("inside")
       /\ call.text_fields[1][2] = <<"c", "a", "t", "s">>
       /\ call.ret = None
    \/ /\ MatchedAbout("word")
       /\ call.about = <<"s", "a", "n", " ", "f", "r", "a", "n", "c", "i", "s", "c", "o">>
       /\ Len(call.text_fields[1][2]) > Len(call.about)
       /\ call.field_terms[1] = {call.about}
       /\ call.ret = <<call.about, "title">>

\* find_location_match has returned from a call on three fields and tags
MatchedFields ==
    /\ call.fn = "find_location_match"
    /\ call.done
    /\ call.kind = "fields"

\* the positions of the fields, and of the tags, that hold a gazetteer term
FieldHits == {i \in 1..Len(call.field_terms) : call.field_terms[i] # {}}
TagHits == {j \in 1..Len(call.tag_terms) : call.tag_terms[j] # {}}

\* C18: find_location_match returns the source of the first field, in the
\* order the caller gave, that holds a gazetteer term (with one of that
\* field's terms), whatever the gazetteer order; it returns source "tags" only
\* when no field holds a term and some tag does; it returns None exactly when
\* no field and no tag holds a term.
C18_FieldOrderFirst ==
    MatchedFields =>
        IF FieldHits # {}
        THEN LET first == CHOOSE i \in FieldHits : \A k \in FieldHits : i <= k
             IN  /\ call.ret # None
                 /\ call.ret[2] = call.text_fields[first][1]
                 /\ call.ret[1] \in call.field_terms[first]
        ELSE IF TagHits # {}
        THEN /\ call.ret # None
             /\ call.ret[2] = "tags"
             /\ call.ret[1] \in UNION {call.tag_terms[j] : j \in TagHits}
        ELSE call.ret = None

\* the description was given first and both it and the url hold a term, with
\* a tag that holds one too: the description's term was returned
C18_Witness ==
    /\ MatchedFields
    /\ call.text_fields[1][1] = "description"
    /\ FieldHits = {1, 3}
    /\ call.field_terms[1] # call.field_terms[3]
    /\ TagHits # {}
    /\ call.ret[2] = "description"

\* C19: when no field holds a gazetteer term and tags do, find_location_match
\* returns, with source "tags", a term of the first tag of the sequence that
\* holds one.
C19_FirstMatchingTag ==
    (MatchedFields /\ FieldHits = {} /\ TagHits # {}) =>
        LET first == CHOOSE j \in TagHits : \A k \in TagHits : j <= k
        IN  /\ call.ret # None
            /\ call.ret[2] = "tags"
            /\ call.ret[1] \in call.tag_terms[first]

\* meets_criteria has returned
CriteriaChecked ==
    /\ call.fn = "meets_criteria"
    /\ call.done

\* C20: meets_criteria returns eligible exactly when total_followers (0 when
\* missing) is at least min_followers, the profile has a non-zero updated
\* timestamp, and the whole days elapsed since it are at most
\* max_days_inactive; when the followers are fewer than min_followers or the
\* timestamp is missing or zero it returns (False, None) whatever the other
\* fields are.
C20_EligibleExactlyWhen ==
    CriteriaChecked =>
        LET followers == IF "total_followers" \in DOMAIN call.blog_info
                         THEN call.blog_info.total_followers ELSE 0
            stamped   == /\ "updated" \in DOMAIN call.blog_info
                         /\ call.blog_info.updated # 0
            recent    == now - call.blog_info.updated
                            < (call.max_days_inactive + 1) * DaySeconds
        IN  /\ call.ret[1] = (/\ followers >= call.min_followers
                              /\ stamped
                              /\ recent)
            /\ (followers < call.min_followers \/ ~stamped) =>
                   call.ret = <<FALSE, None>>

\* a profile with enough followers whose last update is a second less than a
\* day old was found eligible under a limit of zero days
C20_Witness ==
    /\ CriteriaChecked
    /\ call.max_days_inactive = 0
    /\ "updated" \in DOMAIN call.blog_info
    /\ now - call.blog_info.updated = DaySeconds - 1
    /\ call.ret = <<TRUE, <<call.blog_info.updated>>>>

----------------------------------------------------------------------------
(* Claims about interrupts and exports, checked under Spec *)

\* C21: when main is interrupted at any position inside its try block, the
\* step that handles the interrupt issues no outbound call, writes to the
\* progress file the qualified blogs and themes as they are, exports the
\* qualified blogs when there are any, and main returns status 1; and once
\* main has returned no call is attempted any more.
C21_InterruptSavesAndExports ==
    [][/\ (pc \in Running /\ exit_code' = <<1>>) =>
             /\ pc' = "done"
             /\ hist'.calls_attempted = hist.calls_attempted
             /\ rate_tracker' = rate_tracker
             /\ file' # <<>>
             /\ file'[1].discovered_blogs = discovered_blogs
             /\ \A b \in DOMAIN blog_themes :
                   Range(file'[1].blog_themes[b]) = blog_themes[b]
             /\ DOMAIN discovered_blogs # {} => exported' = <<discovered_blogs>>
             /\ discovered_blogs' = discovered_blogs
       /\ pc = "done" => hist'.calls_attempted = hist.calls_attempted]_vars

\* main was interrupted while a candidate's blog_info call was about to be
\* made, after calls had been made and a blog had qualified
C21_Witness ==
    /\ pc = "done"
    /\ exit_code = <<1>>
    /\ processed >= 2
    /\ processed < Len(blog_locations)
    /\ hist.calls_attempted >= 3
    /\ DOMAIN discovered_blogs # {}
    /\ exported = <<discovered_blogs>>
    /\ file # <<>>
    /\ file[1].discovered_blogs = discovered_blogs

C24_ExportedThemesSorted ==
    (pc = "done" /\ exported # <<>>) =>
        \A b \in DOMAIN exported[1] :
            exported[1][b].theme_matched = sorted(Get(blog_themes, b, {}))

----------------------------------------------------------------------------
(* Claims about the order of the themes, checked under SpecOrder *)

\* C23: when main has run to its end twice against the same upstream, on two
\* orders of the same themes and without any denial of budget or error, the
\* two runs end with the same qualified blogs, the same themes for each blog
\* and the same theme_matched in each record.
C23_OrderDoesNotMatter ==
    (/\ pc = "done"
     /\ hist.earlier_run # <<>>
     /\ ~hist.budget_stop
     /\ ~hist.earlier_run[1].budget_stop) =>
        /\ DOMAIN discovered_blogs = DOMAIN hist.earlier_run[1].discovered_blogs
        /\ \A b \in DOMAIN discovered_blogs :
              /\ b \in DOMAIN hist.earlier_run[1].discovered_blogs =>
                    discovered_blogs[b].theme_matched
                       = hist.earlier_run[1].discovered_blogs[b].theme_matched
              /\ b \in DOMAIN hist.earlier_run[1].blog_themes =>
                    blog_themes[b] = hist.earlier_run[1].blog_themes[b]

----------------------------------------------------------------------------
(* Claims about the two rate windows, checked under SpecGov *)

\* the step is a check_and_wait of the tracker
CheckStep ==
    /\ pc = "gov_idle"
    /\ chk' = Checked(rate_tracker, now)
    /\ rate_tracker' = chk'.post
    /\ now' = chk'.after

\* the step starts a new hour window or lowers the hourly counter
HourWindowReset ==
    \/ rate_tracker'.hour_start # rate_tracker.hour_start
    \/ rate_tracker'.hourly_calls < rate_tracker.hourly_calls

\* the step starts a new day window or lowers the daily counter
DayWindowReset ==
    \/ rate_tracker'.day_start # rate_tracker.day_start
    \/ rate_tracker'.daily_calls < rate_tracker.daily_calls

\* C25: the counter of a window never decreases except by a reset; a reset
\* happens only inside a check_and_wait, sets the counter to 0 and starts the
\* new window at a clock reading at least one window length after the start
\* of the old window; and a check_and_wait entered with an elapsed window
\* resets its counter and its start before the limits are compared (an
\* elapsed hour window means no sleep, an elapsed day window means True).
C25_WindowsResetOnlyWhenElapsed ==
    [][/\ HourWindowReset =>
             /\ CheckStep
             /\ rate_tracker'.hourly_calls = 0
             /\ rate_tracker'.hour_start \in {now, now'}
             /\ rate_tracker'.hour_start - rate_tracker.hour_start >= HourSeconds
       /\ DayWindowReset =>
             /\ CheckStep
             /\ rate_tracker'.daily_calls = 0
             /\ rate_tracker'.day_start = now
             /\ now - rate_tracker.day_start >= DaySeconds
       /\ (CheckStep /\ now - rate_tracker.hour_start >= HourSeconds) =>
             /\ rate_tracker'.hourly_calls = 0
             /\ rate_tracker'.hour_start = now
             /\ now' = now
       /\ (CheckStep /\ now - rate_tracker.day_start >= DaySeconds) =>
             /\ rate_tracker'.daily_calls = 0
             /\ rate_tracker'.day_start = now
             /\ chk'.ret = TRUE]_vars

\* a check_and_wait entered with both windows elapsed and both counters
\* positive has reset both
C25_Witness ==
    /\ chk.valid
    /\ rate_tracker = chk.post
    /\ chk.at - chk.pre.hour_start >= HourSeconds
    /\ chk.at - chk.pre.day_start >= DaySeconds
    /\ chk.pre.hourly_calls > 0
    /\ chk.pre.daily_calls > 0
    /\ rate_tracker.hourly_calls = 0
    /\ rate_tracker.daily_calls = 0
    /\ rate_tracker.hour_start = chk.at

----------------------------------------------------------------------------
(* Claims about the pages of search_theme_tag, checked under SpecSearch *)

\* the step sends a page request
PageRequested == Len(hist'.requests) = Len(hist.requests) + 1

\* the page request of the step
LastRequest == hist'.requests[Len(hist'.requests)]

\* the upstream has so far answered no request with more posts than asked for
NeverMoreThanRequested ==
    \A i \in 1..Len(hist.requests) :
        hist.requests[i].returned # <<>> =>
            hist.requests[i].returned[1] <= hist.requests[i].limit

\* C26: every page request asks for min(20, max_posts - posts_retrieved)
\* posts, which is at least 1; as long as the upstream has returned no more
\* posts than requested, posts_retrieved <= max_posts; after a page that is
\* empty or shorter than requested the loop is left, and with
\* posts_retrieved >= max_posts no further request is made.
C26_PageLimitAndQuota ==
    [][/\ PageRequested =>
             /\ LastRequest.limit = Min(PageCap, max_posts - posts_retrieved)
             /\ LastRequest.limit >= 1
             /\ (/\ LastRequest.returned # <<>>
                 /\ LastRequest.returned[1] < LastRequest.limit) =>
                    pc' = "search_return"
       /\ NeverMoreThanRequested' => posts_retrieved' <= max_posts
       /\ (pc = "search_check" /\ posts_retrieved >= max_posts) =>
             (pc' = "search_return" /\ ~PageRequested)]_vars

\* a search with a quota of more than one page against an upstream that
\* answers oldest post first: a full page, then the rest of the quota
C26_Witness ==
    /\ pc = "search_return"
    /\ call.upstream = "oldest_first"
    /\ max_posts > PageCap
    /\ Len(hist.requests) = 2
    /\ hist.requests[1].limit = PageCap
    /\ hist.requests[1].returned = <<PageCap>>
    /\ hist.requests[2].limit = max_posts - PageCap
    /\ posts_retrieved = max_posts
    /\ hist.stop_reason = "quota"

\* the timestamps of the posts the current search has seen
SeenTimestamps ==
    {post.timestamp :
        post \in {seen \in hist.seen_posts : "timestamp" \in DOMAIN seen}}

\* C27: when a request is about to be sent after a page was processed, the
\* cursor `before` is the smallest timestamp among the posts the search has
\* seen so far, whatever the order of the posts in a page.
C27_CursorIsOldestSeen ==
    (pc = "search_fetch" /\ SeenTimestamps # {}) =>
        \A t \in SeenTimestamps : before <= t

----------------------------------------------------------------------------
(* Claims about the number of calls, checked under SpecRoll *)

CallsWithin(i, span) ==
    Cardinality({j \in i..Len(hist.call_times) :
                    hist.call_times[j] - hist.call_times[i] < span})

\* C29: the outbound calls made within any span of 3600 seconds are at most
\* hourly_limit, and those made within any span of 86400 seconds at most
\* daily_limit.
C29_RollingWindowBound ==
    \A i \in 1..Len(hist.call_times) :
        /\ CallsWithin(i, HourSeconds) <= rate_tracker.hourly_limit
        /\ CallsWithin(i, DaySeconds) <= rate_tracker.daily_limit

----------------------------------------------------------------------------
(* Claim about termination, checked under SpecSearchFair *)

\* C30: whatever the upstream answers (full, short or empty pages, errors)
\* and whether or not budget is denied, a search makes at most max_posts page
\* requests and reaches its return, stopped by the quota, a short or empty
\* page, the budget or an error; and run_search over its themes comes to its
\* end.
C30_SearchAndRunTerminate ==
    /\ [](Len(hist.requests) <= max_posts)
    /\ [](pc = "search_return" =>
             hist.stop_reason \in {"quota", "short", "empty", "budget", "error"})
    /\ (pc \in {"search_check", "search_fetch"}) ~> (pc = "search_return")
    /\ <>(pc = "done")

\* a run that ended after a last search that made max_posts page requests
C30_Witness ==
    /\ pc = "done"
    /\ theme_i > Len(search_themes)
    /\ call.upstream = "ignores_cursor"
    /\ Len(hist.requests) = max_posts
    /\ hist.stop_reason = "quota"
    /\ errors = MaxErrors

====
